---- MODULE Spec2Model ----
(***************************************************************************)
(* marginPolish.c: the orchestrator (main), the reference-name munging     *)
(* (parseReferenceSequences) and the contig merge loop (handleMerge,       *)
(* handleDiploidMerge).  The chunk loop of main runs under                 *)
(* "#pragma omp parallel for schedule(dynamic,1)"; each thread of the team *)
(* is a process of the model, and a step of a thread is one shared-memory  *)
(* access or one run of thread-local code.                                 *)
(***************************************************************************)
EXTENDS Integers, Sequences, FiniteSets, TLC

\* ------------------------------------------------------------------ bounds
MaxChunks == 2
MaxThreads == 2
MaxNameLen == 3
MaxRecords == 2
ContigLen == 2
FileDepth == 3
MaxOpts == 2
MaxMergeChunks == 4
MaxHeaderLen == 4
MaxChunkSize == 3
MaxChunkBoundary == 2
MaxReads == 2

VARIABLES
    argv,               \* the command line: positional count and option words
    paramsFile,         \* content of the PARAMS file
    bamReads,           \* the number of reads the BAM holds for each chunk
    opts,               \* main's option variables (lines 266-290)
    files,              \* the file system: which paths access(.., R_OK) accepts
    fasta,              \* records of the assembly FASTA, as fastaReadToMap reads them
    mainPc,             \* position of main
    exitCode,           \* -1 while running, else the exit status of the process
    abortedAt,          \* which st_errAbort / return ended the process
    trueReferenceBam,
    trueReferenceBamHap2,
    params,             \* params->polishParams
    referenceSequences, \* stHash name -> sequence
    out,                \* the output FASTA handles and the records written
    bamChunker,         \* the chunker: built flag and chunk list
    results,            \* chunkResults, chunkResultsH2, readSetsH1, readSetsH2
    chunkOrder,
    nextIter,           \* next loop index the dynamic schedule hands out
    tpc, tIter, tChunkIdx, tUseReadAlleles, tBg,   \* per thread: position and locals
    tReads,             \* per thread: the objects of its lists reads and alignments
    slotWrites,         \* history: per array and slot, the iterations that wrote it
    constructSeen,      \* history: per chunk, useReadAlleles as seen by bubbleGraph_constructFromPoa
    mergeSeen,          \* history: the result arrays as handed to the merger
    taskLog,            \* history: per chunk, the stages its task has run, in order
    chunkLog            \* history: per chunk, the reference substring, the reads converted
                        \* and given to the POA, the destructions, the repeat-count dump

vars == <<argv, paramsFile, bamReads, opts, files, fasta, mainPc, exitCode, abortedAt, trueReferenceBam,
          trueReferenceBamHap2, params, referenceSequences, out, bamChunker,
          results, chunkOrder, nextIter, tpc, tIter, tChunkIdx, tUseReadAlleles, tBg, tReads,
          slotWrites, constructSeen, mergeSeen, taskLog, chunkLog>>

NULL == "NULL"
Threads == 1..MaxThreads
FileNames == {"bam", "bai", "fasta", "params", "truth1", "truth2"}
Arrays == {"chunkResults", "chunkResultsH2", "readSetsH1", "readSetsH2"}

\* ------------------------------------------------------------ strings
\* A C string is a sequence of one-character strings.
NameChars == {"a", "b", " "}
IsSpace(c) == c = " "

RECURSIVE SeqsUpTo(_, _)
SeqsUpTo(S, n) ==
    IF n = 0 THEN {<<>>}
    ELSE LET shorter == SeqsUpTo(S, n - 1)
         IN shorter \cup {Append(s, c) : s \in {x \in shorter : Len(x) = n - 1}, c \in S}

Perms(S) == {f \in [1..Cardinality(S) -> S] : \A i, j \in 1..Cardinality(S) : f[i] = f[j] => i = j}

\* sscanf(s, "%s", buf): skip leading white space, then copy the maximal run of
\* non-white-space characters; returns 1 if a token was stored, EOF (-1) if the
\* input ended first.
RECURSIVE SkipSpace(_)
SkipSpace(s) ==
    IF s = <<>> THEN <<>>
    ELSE IF IsSpace(Head(s)) THEN SkipSpace(Tail(s)) ELSE s

RECURSIVE TakeToken(_)
TakeToken(s) ==
    IF s = <<>> THEN <<>>
    ELSE IF IsSpace(Head(s)) THEN <<>> ELSE <<Head(s)>> \o TakeToken(Tail(s))

SscanfS(s) ==
    LET tok == TakeToken(SkipSpace(s))
    IN [ret |-> IF tok = <<>> THEN -1 ELSE 1, buf |-> tok]

\* ------------------------------------------------------------ stHash
\* stHash_search gives NULL exactly when the key is absent.
HashSearch(h, k) == IF k \in DOMAIN h THEN h[k] ELSE NULL
HashMisses(h, k) == k \notin DOMAIN h
HashInsert(h, k, v) == [x \in (DOMAIN h) \cup {k} |-> IF x = k THEN v ELSE h[x]]
HashRemove(h, k) == [x \in (DOMAIN h) \ {k} |-> h[x]]
EmptyHash == [x \in {} |-> NULL]

\* fastaReadToMap: one entry per record, keyed by the full header line.
RECURSIVE FastaReadToMap(_, _)
FastaReadToMap(recs, i) ==
    IF i = 0 THEN EmptyHash
    ELSE HashInsert(FastaReadToMap(recs, i - 1), recs[i].name, recs[i].seq)

\* The loop of parseReferenceSequences over the key list refSeqNames.
RECURSIVE MungeLoop(_, _, _)
MungeLoop(h, refSeqNames, i) ==
    IF i > Len(refSeqNames) THEN h
    ELSE LET fullRefSeqName == refSeqNames[i]
             sc == SscanfS(fullRefSeqName)
         IN IF sc.ret = 1 /\ sc.buf # fullRefSeqName
            THEN LET newKey == sc.buf
                     refSeq == HashSearch(h, fullRefSeqName)
                 IN MungeLoop(HashRemove(HashInsert(h, newKey, refSeq), fullRefSeqName),
                              refSeqNames, i + 1)
            ELSE MungeLoop(h, refSeqNames, i + 1)

\* parseReferenceSequences, for one order in which stHash_getKeys lists the keys.
ParseReferenceSequencesOp(recs, refSeqNames) ==
    MungeLoop(FastaReadToMap(recs, Len(recs)), refSeqNames, 1)

\* ------------------------------------------------------------ inputs
\* The assemblies the pipeline is run on: one contig; two contigs, the first
\* with metadata after its name.
RefSeq(i) == [rec |-> i, len |-> ContigLen]
MainFastas ==
    { << [name |-> <<"a">>, seq |-> RefSeq(1)] >>,
      << [name |-> <<"a", " ", "b">>, seq |-> RefSeq(1)], [name |-> <<"b">>, seq |-> RefSeq(2)] >> }

\* Any assembly with pairwise distinct header lines.
AllNames == SeqsUpTo(NameChars, MaxNameLen)
AllFastas ==
    UNION { { [i \in 1..n |-> [name |-> f[i], seq |-> RefSeq(i)]] :
                f \in {g \in [1..n -> AllNames] : \A i, j \in 1..n : g[i] = g[j] => i = j} } :
            n \in 0..MaxRecords }

\* The chunks bamChunker_construct2 may hand back (names come from the BAM
\* header, which need not agree with the assembly).
ChunkPool ==
    { [refSeqName |-> <<"a">>, chunkBoundaryStart |-> 0, chunkBoundaryEnd |-> ContigLen],
      [refSeqName |-> <<"b">>, chunkBoundaryStart |-> 0, chunkBoundaryEnd |-> ContigLen],
      [refSeqName |-> <<"a">>, chunkBoundaryStart |-> ContigLen + 1,
       chunkBoundaryEnd |-> ContigLen + 2] }
ChunkLists == SeqsUpTo(ChunkPool, MaxChunks)

NoParams == [loaded |-> FALSE, shuffleChunks |-> FALSE,
             useReadAlleles |-> FALSE, useReadAllelesInPhasing |-> FALSE,
             maxDepth |-> 0, useRunLengthEncoding |-> FALSE,
             chunkSize |-> 0, chunkBoundary |-> 0]
NoFile == [base |-> NULL, ext |-> NULL]
NoLists == [reads |-> {}, alignments |-> {}]
NoSubstring == [start |-> -1, len |-> -1]
\* What is known of a chunk before its task runs; destroyedReads and
\* destroyedAlignments count the destructions of each read and alignment.
NewChunkLog ==
    [reference |-> NoSubstring, reads |-> {}, alignments |-> {},
     didDownsample |-> FALSE, filtered |-> {},
     poaReads |-> {}, poaAlignments |-> {},
     destroyedReads |-> [i \in 1..bamReads |-> 0],
     destroyedAlignments |-> [i \in 1..bamReads |-> 0],
     dumps |-> {}]
NullSlot == [kind |-> "NULL", chunk |-> -1, readAlleles |-> FALSE]
NoArrays == [a \in Arrays |-> <<>>]

chunkCount == Len(bamChunker.chunks)
Running == exitCode = -1

\* ------------------------------------------------------------ Init
InitProgram ==
    /\ exitCode = -1
    /\ abortedAt = "none"
    /\ trueReferenceBam = IF opts.uParts = 0 THEN NULL ELSE "truth1"
    /\ trueReferenceBamHap2 = NULL
    /\ params = NoParams
    /\ referenceSequences = EmptyHash
    /\ out = [h1Open |-> FALSE, h2Open |-> FALSE, h1 |-> <<>>, h2 |-> <<>>,
              h1File |-> NoFile, h2File |-> NoFile]
    /\ bamChunker = [built |-> FALSE, chunks |-> <<>>]
    /\ results = NoArrays
    /\ chunkOrder = <<>>
    /\ nextIter = 0
    /\ tpc = [t \in Threads |-> "idle"]
    /\ tIter = [t \in Threads |-> -1]
    /\ tChunkIdx = [t \in Threads |-> -1]
    /\ tUseReadAlleles = [t \in Threads |-> FALSE]
    /\ tBg = [t \in Threads |-> FALSE]
    /\ tReads = [t \in Threads |-> NoLists]
    /\ slotWrites = NoArrays
    /\ constructSeen = <<>>
    /\ mergeSeen = [entered |-> FALSE, arrays |-> NoArrays]
    /\ taskLog = <<>>
    /\ chunkLog = <<>>

\* lines 266-290: main's option variables before the option loop; uParts is
\* the number of comma-separated parts of the -u argument (line 422)
DefaultOpts ==
    [logLevelString |-> "critical", outputBase |-> "output", regionStr |-> NULL,
     numThreads |-> 1, outputRepeatCountBase |-> NULL, outputPoaTsvBase |-> NULL,
     outputPoaDotBase |-> NULL, outputHaplotypeBamBase |-> NULL,
     outputHaplotypeReadsBase |-> NULL, maxDepth |-> -1, diploid |-> FALSE,
     helenFeatureType |-> "HFEAT_NONE", setDefaultHelenFeature |-> FALSE,
     splitWeightMaxRunLength |-> 0, uParts |-> 0]

\* A complete command line without options.
PlainArgv == [npos |-> 3, optv |-> <<>>]

\* The PARAMS files the runs are given.
ParamsFiles(depths, rle) ==
    [shuffleChunks : BOOLEAN, useReadAlleles : BOOLEAN, useReadAllelesInPhasing : BOOLEAN,
     maxDepth : depths, useRunLengthEncoding : rle,
     chunkSize : {MaxChunkSize}, chunkBoundary : {MaxChunkBoundary}]

\* State of main after the option loop (lines 264-416).
Init ==
    /\ argv = PlainArgv
    /\ bamReads = 0
    /\ paramsFile \in ParamsFiles({FileDepth}, {TRUE})
    /\ opts \in {[DefaultOpts EXCEPT !.diploid = d, !.numThreads = n, !.uParts = u] :
                   d \in BOOLEAN, n \in 1..MaxThreads, u \in 0..2}
    /\ files \in [FileNames -> BOOLEAN]
    /\ opts.uParts = 0 => ~files["truth1"]
    /\ ~(opts.diploid /\ opts.uParts = 2) => ~files["truth2"]
    /\ fasta \in MainFastas
    /\ mainPc = "diploidCheck"
    /\ InitProgram

\* ------------------------------------------------------------ main, start-up
\* st_errAbort: message, then exit(1).
Abort(where) ==
    /\ mainPc' = "exit"
    /\ exitCode' = 1
    /\ abortedAt' = where

\* ------------------------------------------------------------ the option loop
\* An option word is [form, name, arg]: -n ARG or --name ARG.
\* line 292: argc counts the program name, the positionals and the option words
argc == 1 + argv.npos + Len(argv.optv)

\* line 327: the short options of the optstring (first: the optstring with
\* the '2' of case '2' in it)
ShortOptsWithDiploid ==
    {"a", "o", "v", "r", "p", "f", "F", "u", "h", "L", "i", "j", "d", "t", "m", "n", "2"}

ShortOpts == {"a", "o", "v", "r", "p", "f", "F", "u", "h", "L", "i", "j", "d", "t", "m", "n"}

\* lines 305-324: long_options
LongOptions ==
    [logLevel |-> "a", help |-> "h", threads |-> "t", outputBase |-> "o", region |-> "r",
     depth |-> "p", diploid |-> "2", produceFeatures |-> "f", featureType |-> "F",
     trueReferenceBam |-> "u", splitRleWeightMaxRL |-> "L", outputRepeatCounts |-> "i",
     outputPoaTsv |-> "j", outputPoaDot |-> "d", outputHaplotypeBAM |-> "m",
     outputHaplotypeReads |-> "n"]

\* line 327: the key getopt_long returns for one option word
GetoptLong(word) ==
    IF word.form = "short"
    THEN IF word.name \in ShortOpts THEN word.name ELSE "?"
    ELSE IF word.name \in DOMAIN LongOptions THEN LongOptions[word.name] ELSE "?"

\* atoi on the arguments the command lines carry
Atoi(str) ==
    CASE str = "-1" -> -1
      [] str = "0" -> 0
      [] str = "1" -> 1
      [] str = "2" -> 2
      [] str = "5" -> 5
      [] OTHER -> 0

\* line 422: stString_splitByString(trueReferenceBam, ","), the number of parts
SplitParts(str) == IF str = "truth1,truth2" THEN 2 ELSE 1

\* lines 369-381: the feature type -F selects, "unrecognized" for the else
\* branch (first: with line 376 assigning the diploid type)
FeatureTypeDistinct(optarg) ==
    IF optarg \in {"simpleWeight", "simple"} THEN "HFEAT_SIMPLE_WEIGHT"
    ELSE IF optarg \in {"rleWeight", "splitRleWeight", "split"} THEN "HFEAT_SPLIT_RLE_WEIGHT"
    ELSE IF optarg \in {"channelRleWeight", "channel"} THEN "HFEAT_CHANNEL_RLE_WEIGHT"
    ELSE IF optarg \in {"diploidRleWeight", "diploid"} THEN "HFEAT_DIPLOID_RLE_WEIGHT"
    ELSE "unrecognized"

FeatureType(optarg) ==
    IF optarg \in {"simpleWeight", "simple"} THEN "HFEAT_SIMPLE_WEIGHT"
    ELSE IF optarg \in {"rleWeight", "splitRleWeight", "split"} THEN "HFEAT_SPLIT_RLE_WEIGHT"
    ELSE IF optarg \in {"channelRleWeight", "channel"} THEN "HFEAT_CHANNEL_RLE_WEIGHT"
    ELSE IF optarg \in {"diploidRleWeight", "diploid"} THEN "HFEAT_CHANNEL_RLE_WEIGHT"
    ELSE "unrecognized"

\* The outcome of the option loop: the option variables, and how it ended
\* (exit = -1: the loop ran to its end).
LoopState(o, tru, exit, where) == [o |-> o, tru |-> tru, exit |-> exit, where |-> where]

\* lines 333-415: one pass through the switch; case 'p' falls through into
\* case 'i'; 'v' has no case and lands in default
Switch(o, tru, key, optarg) ==
    CASE key = "a" -> LoopState([o EXCEPT !.logLevelString = optarg], tru, -1, "none")
      [] key = "h" -> LoopState(o, tru, 0, "help")
      [] key = "o" -> LoopState([o EXCEPT !.outputBase = optarg], tru, -1, "none")
      [] key = "r" -> LoopState([o EXCEPT !.regionStr = optarg], tru, -1, "none")
      [] key = "p" ->
            IF Atoi(optarg) < 0
            THEN LoopState([o EXCEPT !.maxDepth = Atoi(optarg)], tru, 1, "maxDepth")
            ELSE LoopState([o EXCEPT !.maxDepth = Atoi(optarg),
                                     !.outputRepeatCountBase = optarg], tru, -1, "none")
      [] key = "i" -> LoopState([o EXCEPT !.outputRepeatCountBase = optarg], tru, -1, "none")
      [] key = "j" -> LoopState([o EXCEPT !.outputPoaTsvBase = optarg], tru, -1, "none")
      [] key = "d" -> LoopState([o EXCEPT !.outputPoaDotBase = optarg], tru, -1, "none")
      [] key = "m" -> LoopState([o EXCEPT !.outputHaplotypeBamBase = optarg], tru, -1, "none")
      [] key = "n" -> LoopState([o EXCEPT !.outputHaplotypeReadsBase = optarg], tru, -1, "none")
      [] key = "F" ->
            IF FeatureType(optarg) = "unrecognized"
            THEN LoopState(o, tru, 1, "featureType")
            ELSE LoopState([o EXCEPT !.helenFeatureType = FeatureType(optarg)], tru, -1, "none")
      \* the path given with -u is the file "truth1" of the model
      [] key = "u" -> LoopState([o EXCEPT !.uParts = SplitParts(optarg)], "truth1", -1, "none")
      [] key = "f" ->
            IF o.helenFeatureType = "HFEAT_NONE"
            THEN LoopState([o EXCEPT !.setDefaultHelenFeature = TRUE], tru, -1, "none")
            ELSE LoopState(o, tru, -1, "none")
      [] key = "L" ->
            LoopState([o EXCEPT !.splitWeightMaxRunLength = Atoi(optarg)], tru,
                      IF Atoi(optarg) <= 0 THEN 1 ELSE -1,
                      IF Atoi(optarg) <= 0 THEN "splitRleWeightMaxRL" ELSE "none")
      [] key = "t" ->
            LoopState([o EXCEPT !.numThreads = Atoi(optarg)], tru,
                      IF Atoi(optarg) <= 0 THEN 1 ELSE -1,
                      IF Atoi(optarg) <= 0 THEN "threadCount" ELSE "none")
      [] key = "2" -> LoopState([o EXCEPT !.diploid = TRUE], tru, -1, "none")
      [] OTHER -> LoopState(o, tru, 0, "usage")

\* lines 304-416: the loop over the option words, from word i on
RECURSIVE OptionLoop(_, _, _, _)
OptionLoop(optv, i, o, tru) ==
    IF i > Len(optv) THEN LoopState(o, tru, -1, "none")
    ELSE LET r == Switch(o, tru, GetoptLong(optv[i]), optv[i].arg)
         IN IF r.exit # -1 THEN r ELSE OptionLoop(optv, i + 1, r.o, r.tru)

\* lines 292-416: the argument count, then the option loop
ParseOptions ==
    /\ Running /\ mainPc = "options"
    /\ IF argc < 4
       THEN /\ mainPc' = "exit" /\ exitCode' = 0 /\ abortedAt' = "usage"
            /\ UNCHANGED <<opts, trueReferenceBam>>
       ELSE LET r == OptionLoop(argv.optv, 1, opts, trueReferenceBam)
            IN /\ opts' = r.o
               /\ trueReferenceBam' = r.tru
               /\ IF r.exit # -1
                  THEN mainPc' = "exit" /\ exitCode' = r.exit /\ abortedAt' = r.where
                  ELSE mainPc' = "diploidCheck" /\ UNCHANGED <<exitCode, abortedAt>>
    /\ UNCHANGED <<argv, paramsFile, bamReads, files, fasta, trueReferenceBamHap2, params,
                   referenceSequences, out, bamChunker, results, chunkOrder, nextIter,
                   tpc, tIter, tChunkIdx, tUseReadAlleles, tBg, tReads, slotWrites,
                   constructSeen, taskLog, chunkLog, mergeSeen>>

\* lines 418-430
DiploidSanity ==
    /\ Running /\ mainPc = "diploidCheck"
    /\ IF opts.diploid /\ trueReferenceBam # NULL
       THEN IF opts.uParts # 2
            THEN /\ Abort("trueReferenceBam")
                 /\ UNCHANGED <<trueReferenceBam, trueReferenceBamHap2>>
            ELSE /\ trueReferenceBam' = "truth1"
                 /\ trueReferenceBamHap2' = "truth2"
                 /\ mainPc' = "sanity"
                 /\ UNCHANGED <<exitCode, abortedAt>>
       ELSE /\ mainPc' = "sanity"
            /\ UNCHANGED <<exitCode, abortedAt, trueReferenceBam, trueReferenceBamHap2>>
    /\ UNCHANGED <<argv, paramsFile, bamReads, opts, files, fasta, params, referenceSequences, out, bamChunker,
                   results, chunkOrder, nextIter, tpc, tIter, tChunkIdx, tUseReadAlleles,
                   tBg, tReads, slotWrites, constructSeen, taskLog, chunkLog, mergeSeen>>

\* access(path, R_OK) == 0
Access(path) == files[path]

\* The if / else-if chain of lines 433-458: the st_errAbort it reaches, or "ok".
\* The .bai lookups sit behind the st_errAbort of their branch.
SanityCheckNoHap2(bam, ref, par, tru, hap2) ==
    IF ~Access(bam) THEN "bamInFile"
    ELSE IF ~Access(ref) THEN "referenceFastaFile"
    ELSE IF ~Access(par) THEN "paramsFile"
    ELSE IF tru # NULL /\ ~Access(tru) THEN "trueReferenceBam"
    ELSE "ok"

SanityCheck(bam, ref, par, tru, hap2) ==
    IF ~Access(bam) THEN "bamInFile"
    ELSE IF ~Access(ref) THEN "referenceFastaFile"
    ELSE IF ~Access(par) THEN "paramsFile"
    ELSE IF tru # NULL /\ ~Access(tru) THEN "trueReferenceBam"
    ELSE IF hap2 # NULL /\ ~Access(hap2) THEN "trueReferenceBamHap2"
    ELSE "ok"

\* lines 432-458
VerifyFilesExist ==
    /\ Running /\ mainPc = "sanity"
    /\ LET r == SanityCheck("bam", "fasta", "params", trueReferenceBam, trueReferenceBamHap2)
       IN IF r # "ok"
          THEN Abort(r)
          ELSE mainPc' = "featureInit" /\ UNCHANGED <<exitCode, abortedAt>>
    /\ UNCHANGED <<argv, paramsFile, bamReads, opts, files, fasta, trueReferenceBam, trueReferenceBamHap2, params,
                   referenceSequences, out, bamChunker, results, chunkOrder, nextIter,
                   tpc, tIter, tChunkIdx, tUseReadAlleles, tBg, tReads, slotWrites,
                   constructSeen, taskLog, chunkLog, mergeSeen>>

\* POAFEATURE_*_MAX_RUN_LENGTH_DEFAULT
POAFEATURE_SPLIT_MAX_RUN_LENGTH_DEFAULT == 10
POAFEATURE_CHANNEL_MAX_RUN_LENGTH_DEFAULT == 12
POAFEATURE_DIPLOID_MAX_RUN_LENGTH_DEFAULT == 50

\* lines 478-480
DefaultFeature(type, setDefault, diploid) ==
    IF type = "HFEAT_NONE" /\ setDefault
    THEN IF diploid THEN "HFEAT_DIPLOID_RLE_WEIGHT" ELSE "HFEAT_SPLIT_RLE_WEIGHT"
    ELSE type

\* lines 481-495
DefaultRunLength(type, len) ==
    IF type # "HFEAT_NONE" /\ len = 0
    THEN CASE type = "HFEAT_SPLIT_RLE_WEIGHT" -> POAFEATURE_SPLIT_MAX_RUN_LENGTH_DEFAULT
           [] type = "HFEAT_CHANNEL_RLE_WEIGHT" -> POAFEATURE_CHANNEL_MAX_RUN_LENGTH_DEFAULT
           [] type = "HFEAT_DIPLOID_RLE_WEIGHT" -> POAFEATURE_DIPLOID_MAX_RUN_LENGTH_DEFAULT
           [] OTHER -> len
    ELSE len

\* lines 477-495: feature init
FeatureInit ==
    /\ Running /\ mainPc = "featureInit"
    /\ LET type == DefaultFeature(opts.helenFeatureType, opts.setDefaultHelenFeature, opts.diploid)
       IN opts' = [opts EXCEPT !.helenFeatureType = type,
                               !.splitWeightMaxRunLength = DefaultRunLength(type, @)]
    /\ mainPc' = "params"
    /\ UNCHANGED <<argv, paramsFile, bamReads, files, fasta, exitCode, abortedAt, trueReferenceBam,
                   trueReferenceBamHap2, params, referenceSequences, out, bamChunker, results,
                   chunkOrder, nextIter, tpc, tIter, tChunkIdx, tUseReadAlleles, tBg, tReads,
                   slotWrites, constructSeen, taskLog, chunkLog, mergeSeen>>

\* lines 507-517: whether the feature type and the RLE parameter contradict
RleContradictsSimpleOnly(type, useRunLengthEncoding) ==
    type = "HFEAT_SIMPLE_WEIGHT" /\ useRunLengthEncoding

RleContradicts(type, useRunLengthEncoding) ==
    IF type = "HFEAT_SIMPLE_WEIGHT" THEN useRunLengthEncoding
    ELSE IF type # "HFEAT_NONE" THEN ~useRunLengthEncoding
    ELSE FALSE

\* lines 507-517
CheckRle ==
    /\ Running /\ mainPc = "rleCheck"
    /\ IF RleContradicts(opts.helenFeatureType, params.useRunLengthEncoding)
       THEN Abort("runLengthEncoding")
       ELSE mainPc' = "refs" /\ UNCHANGED <<exitCode, abortedAt>>
    /\ UNCHANGED <<argv, paramsFile, bamReads, opts, files, fasta, trueReferenceBam, trueReferenceBamHap2,
                   params, referenceSequences, out, bamChunker, results, chunkOrder, nextIter,
                   tpc, tIter, tChunkIdx, tUseReadAlleles, tBg, tReads, slotWrites,
                   constructSeen, taskLog, chunkLog, mergeSeen>>

\* lines 501-505: the depth of the command line replaces the file's
UpdateDepthAlways(fileDepth, maxDepth) == maxDepth

UpdateDepth(fileDepth, maxDepth) == IF maxDepth >= 0 THEN maxDepth ELSE fileDepth

\* lines 497-505: params_readParams, then the depth update
ReadParams ==
    /\ Running /\ mainPc = "params"
    /\ params' = [loaded |-> TRUE, shuffleChunks |-> paramsFile.shuffleChunks,
                  useReadAlleles |-> paramsFile.useReadAlleles,
                  useReadAllelesInPhasing |-> paramsFile.useReadAllelesInPhasing,
                  maxDepth |-> UpdateDepth(paramsFile.maxDepth, opts.maxDepth),
                  useRunLengthEncoding |-> paramsFile.useRunLengthEncoding,
                  chunkSize |-> paramsFile.chunkSize,
                  chunkBoundary |-> paramsFile.chunkBoundary]
    /\ mainPc' = "rleCheck"
    /\ UNCHANGED <<argv, paramsFile, bamReads, opts, files, fasta, exitCode, abortedAt, trueReferenceBam,
                   trueReferenceBamHap2, referenceSequences, out, bamChunker, results,
                   chunkOrder, nextIter, tpc, tIter, tChunkIdx, tUseReadAlleles, tBg, tReads,
                   slotWrites, constructSeen, taskLog, chunkLog, mergeSeen>>

\* line 525 and lines 88-117
ParseReferenceSequences ==
    /\ Running /\ mainPc = "refs"
    /\ \E refSeqNames \in Perms(DOMAIN FastaReadToMap(fasta, Len(fasta))) :
          referenceSequences' = ParseReferenceSequencesOp(fasta, refSeqNames)
    /\ mainPc' = "openOut"
    /\ UNCHANGED <<argv, paramsFile, bamReads, opts, files, fasta, exitCode, abortedAt, trueReferenceBam,
                   trueReferenceBamHap2, params, out, bamChunker, results, chunkOrder,
                   nextIter, tpc, tIter, tChunkIdx, tUseReadAlleles, tBg, tReads, slotWrites,
                   constructSeen, taskLog, chunkLog, mergeSeen>>

\* lines 528, 537: stString_print("%s.h1.fa" / "%s.fa" / "%s.h2.fa", outputBase)
OutFile(base, ext) == [base |-> base, ext |-> ext]
polishedReferenceOutFile == OutFile(opts.outputBase, IF opts.diploid THEN ".h1.fa" ELSE ".fa")
polishedReferenceOutFileH2 == IF opts.diploid THEN OutFile(opts.outputBase, ".h2.fa") ELSE NoFile

\* lines 527-545: fopen(.., "w") of BASE.fa, or of BASE.h1.fa and BASE.h2.fa
OpenOutputs ==
    /\ Running /\ mainPc = "openOut"
    /\ \E ok1 \in BOOLEAN, ok2 \in BOOLEAN :
          IF ~ok1
          THEN Abort("polishedReferenceOutFh") /\ UNCHANGED out
          ELSE IF opts.diploid /\ ~ok2
          THEN /\ Abort("polishedReferenceOutFhH2")
               /\ out' = [out EXCEPT !.h1Open = TRUE, !.h1File = polishedReferenceOutFile]
          ELSE /\ out' = [out EXCEPT !.h1Open = TRUE, !.h2Open = opts.diploid,
                                     !.h1File = polishedReferenceOutFile,
                                     !.h2File = polishedReferenceOutFileH2]
               /\ mainPc' = "chunker"
               /\ UNCHANGED <<exitCode, abortedAt>>
    /\ UNCHANGED <<argv, paramsFile, bamReads, opts, files, fasta, trueReferenceBam, trueReferenceBamHap2, params,
                   referenceSequences, bamChunker, results, chunkOrder, nextIter, tpc,
                   tIter, tChunkIdx, tUseReadAlleles, tBg, tReads, slotWrites, constructSeen, taskLog, chunkLog,
                   mergeSeen>>

\* line 552
ChunkerEmptyNever(chunks) == FALSE

ChunkerEmpty(chunks) == Len(chunks) = 0

\* lines 547-554
ConstructChunker ==
    /\ Running /\ mainPc = "chunker"
    /\ \E chunks \in ChunkLists :
          /\ bamChunker' = [built |-> TRUE, chunks |-> chunks]
          /\ IF ChunkerEmpty(chunks)
             THEN Abort("noValidReads")
             ELSE mainPc' = "alloc" /\ UNCHANGED <<exitCode, abortedAt>>
    /\ UNCHANGED <<argv, paramsFile, bamReads, opts, files, fasta, trueReferenceBam, trueReferenceBamHap2, params,
                   referenceSequences, out, results, chunkOrder, nextIter, tpc, tIter,
                   tChunkIdx, tUseReadAlleles, tBg, tReads, slotWrites, constructSeen, taskLog, chunkLog, mergeSeen>>

\* ------------------------------------------------------------ the chunker
\* bamChunker_construct2 is declared in htsIntegration.h; its windows follow the
\* description of the chunker.  A chunk is what bamChunk_construct2 receives.
Min2(a, b) == IF a < b THEN a ELSE b
Max2(a, b) == IF a > b THEN a ELSE b

\* The regions -r may name, as name[:start-end]
RegionStrs == {"a", "a:0-2", "a:1-3", "a:2-9", "a:3-1", "b:1-2"}
Region(name, ranged, start, end) ==
    [name |-> name, ranged |-> ranged, start |-> start, end |-> end]
ParseRegion(str) ==
    CASE str = "a" -> Region(<<"a">>, FALSE, 0, 0)
      [] str = "a:0-2" -> Region(<<"a">>, TRUE, 0, 2)
      [] str = "a:1-3" -> Region(<<"a">>, TRUE, 1, 3)
      [] str = "a:2-9" -> Region(<<"a">>, TRUE, 2, 9)
      [] str = "a:3-1" -> Region(<<"a">>, TRUE, 3, 1)
      [] OTHER -> Region(<<"b">>, TRUE, 1, 2)

\* The window k of a contig restricted to [lo, hi)
BamChunkUnclamped(refSeqName, contigLen, lo, hi, k, chunkSize, chunkBoundary) ==
    LET iS == Max2(lo, k * chunkSize)
        iE == Min2(hi, (k + 1) * chunkSize)
    IN [refSeqName |-> refSeqName,
        chunkBoundaryStart |-> Max2(0, iS - chunkBoundary),
        chunkStart |-> iS,
        chunkEnd |-> iE,
        chunkBoundaryEnd |-> iE + chunkBoundary]

BamChunk(refSeqName, contigLen, lo, hi, k, chunkSize, chunkBoundary) ==
    LET iS == Max2(lo, k * chunkSize)
        iE == Min2(hi, (k + 1) * chunkSize)
    IN [refSeqName |-> refSeqName,
        chunkBoundaryStart |-> Max2(0, iS - chunkBoundary),
        chunkStart |-> iS,
        chunkEnd |-> iE,
        chunkBoundaryEnd |-> Min2(contigLen, iE + chunkBoundary)]

\* The windows of one contig from window k on, in coordinate order; windows
\* that miss [lo, hi) are not emitted
RECURSIVE ContigChunks(_, _, _, _, _, _, _)
ContigChunks(refSeqName, contigLen, lo, hi, k, chunkSize, chunkBoundary) ==
    IF k * chunkSize >= contigLen THEN <<>>
    ELSE LET c == BamChunk(refSeqName, contigLen, lo, hi, k, chunkSize, chunkBoundary)
             rest == ContigChunks(refSeqName, contigLen, lo, hi, k + 1, chunkSize, chunkBoundary)
         IN IF c.chunkStart < c.chunkEnd THEN <<c>> \o rest ELSE rest

\* The interval of a contig the region leaves: all of it without a region or
\* for a bare name, the clipped interval for name:start-end, nothing for
\* another contig
RegionLo(contig, regionStr) ==
    IF regionStr = NULL THEN 0
    ELSE LET r == ParseRegion(regionStr)
         IN IF r.name # contig.name THEN contig.len
            ELSE IF r.ranged THEN Max2(0, r.start) ELSE 0

RegionHi(contig, regionStr) ==
    IF regionStr = NULL THEN contig.len
    ELSE LET r == ParseRegion(regionStr)
         IN IF r.name # contig.name THEN 0
            ELSE IF r.ranged THEN Min2(contig.len, r.end) ELSE contig.len

\* All chunks: contigs in header order, windows in coordinate order
RECURSIVE BamChunkerConstruct2(_, _, _, _, _)
BamChunkerConstruct2(header, i, regionStr, chunkSize, chunkBoundary) ==
    IF i > Len(header) THEN <<>>
    ELSE ContigChunks(header[i].name, header[i].len, RegionLo(header[i], regionStr),
                      RegionHi(header[i], regionStr), 0, chunkSize, chunkBoundary)
         \o BamChunkerConstruct2(header, i + 1, regionStr, chunkSize, chunkBoundary)

\* The alignment headers: one contig, or two.
Headers ==
    { << [name |-> <<"a">>, len |-> n] >> : n \in 1..MaxHeaderLen }
    \cup { << [name |-> <<"a">>, len |-> n], [name |-> <<"b">>, len |-> ContigLen] >> :
             n \in 1..MaxHeaderLen }

\* lines 547-554 with the chunker computing its windows from the header
ConstructChunkerFromHeader ==
    /\ Running /\ mainPc = "chunker"
    /\ \E header \in Headers :
          LET chunks == BamChunkerConstruct2(header, 1, opts.regionStr,
                                             params.chunkSize, params.chunkBoundary)
          IN /\ bamChunker' = [built |-> TRUE, chunks |-> chunks, header |-> header]
             /\ IF ChunkerEmpty(chunks)
                THEN Abort("noValidReads")
                ELSE mainPc' = "alloc" /\ UNCHANGED <<exitCode, abortedAt>>
    /\ UNCHANGED <<argv, paramsFile, bamReads, opts, files, fasta, trueReferenceBam, trueReferenceBamHap2, params,
                   referenceSequences, out, results, chunkOrder, nextIter, tpc, tIter,
                   tChunkIdx, tUseReadAlleles, tBg, tReads, slotWrites, constructSeen, taskLog, chunkLog, mergeSeen>>

\* stList_shuffle: some permutation of the list.
ShuffleWithRepeats(n) == [1..n -> 0..(n - 1)]

Shuffle(n) == Perms(0..(n - 1))

Identity(n) == [i \in 1..n |-> i - 1]

\* lines 569-594: result arrays (calloc) and the execution order
AllocResults ==
    /\ Running /\ mainPc = "alloc"
    /\ results' = [a \in Arrays |->
                     IF a = "chunkResults" \/ opts.diploid
                     THEN [k \in 1..chunkCount |-> NullSlot] ELSE <<>>]
    /\ slotWrites' = [a \in Arrays |-> [k \in 1..chunkCount |-> <<>>]]
    /\ constructSeen' = [k \in 1..chunkCount |-> <<>>]
    /\ taskLog' = [k \in 1..chunkCount |-> <<>>]
    /\ chunkLog' = [k \in 1..chunkCount |-> NewChunkLog]
    /\ chunkOrder' \in (IF params.shuffleChunks THEN Shuffle(chunkCount)
                        ELSE {Identity(chunkCount)})
    /\ mainPc' = "parallel"
    /\ UNCHANGED <<argv, paramsFile, bamReads, opts, files, fasta, exitCode, abortedAt, trueReferenceBam,
                   trueReferenceBamHap2, params, referenceSequences, out, bamChunker,
                   nextIter, tpc, tIter, tChunkIdx, tUseReadAlleles, tBg, tReads, mergeSeen>>

\* ------------------------------------------------------------ chunk tasks
\* Variables no chunk task touches outside its abort.
setupVars == <<argv, paramsFile, bamReads, opts, files, fasta, trueReferenceBam, trueReferenceBamHap2,
               referenceSequences, out, bamChunker, chunkOrder, mergeSeen>>

InTeam(t) == t \in 1..opts.numThreads

\* line 600: chunkIdx = stIntTuple_get(stList_get(chunkOrder, i), 0)
GetChunkIdx(i) == chunkOrder[i + 1]

\* lines 599-605: schedule(dynamic,1) hands the next index to a free thread
FetchChunk(t) ==
    /\ Running /\ mainPc = "parallel" /\ InTeam(t)
    /\ tpc[t] = "idle"
    /\ nextIter < chunkCount
    /\ tIter' = [tIter EXCEPT ![t] = nextIter]
    /\ tChunkIdx' = [tChunkIdx EXCEPT ![t] = GetChunkIdx(nextIter)]
    /\ nextIter' = nextIter + 1
    /\ tpc' = [tpc EXCEPT ![t] = "entry"]
    /\ UNCHANGED <<setupVars, mainPc, exitCode, abortedAt, params, results,
                   tUseReadAlleles, tBg, tReads, slotWrites, constructSeen, taskLog, chunkLog>>

\* lines 639-650: the two fatal errors at task entry
EntryFatalStartOnly(bamChunk) ==
    IF HashMisses(referenceSequences, bamChunk.refSeqName) THEN "ok"
    ELSE IF bamChunk.chunkBoundaryStart > HashSearch(referenceSequences, bamChunk.refSeqName).len
    THEN "startBeyondContig"
    ELSE "ok"

EntryFatal(bamChunk) ==
    LET fullReferenceString == HashSearch(referenceSequences, bamChunk.refSeqName)
    IN IF HashMisses(referenceSequences, bamChunk.refSeqName) THEN "referenceMissing"
       ELSE IF bamChunk.chunkBoundaryStart > fullReferenceString.len THEN "startBeyondContig"
       ELSE "ok"

\* lines 656-713: the stages between the entry checks and the POA
PolishStages ==
    <<"convertToReadsAndAlignments">>
    \o (IF params.maxDepth > 0 THEN <<"poorMansDownsample">> ELSE <<>>)
    \o <<"poa_realignAll">>

\* lines 229-247: the substring of the contig bamChunk_getReferenceSubstring
\* cuts; NULL (no substring) when the contig is not in the map
BamChunkGetReferenceSubstringToBoundaryEnd(bamChunk) ==
    IF HashMisses(referenceSequences, bamChunk.refSeqName) THEN NoSubstring
    ELSE [start |-> bamChunk.chunkBoundaryStart,
          len |-> bamChunk.chunkBoundaryEnd - bamChunk.chunkBoundaryStart]

BamChunkGetReferenceSubstring(bamChunk) ==
    IF HashMisses(referenceSequences, bamChunk.refSeqName) THEN NoSubstring
    ELSE LET refLen == HashSearch(referenceSequences, bamChunk.refSeqName).len
         IN [start |-> bamChunk.chunkBoundaryStart,
             len |-> (IF refLen < bamChunk.chunkBoundaryEnd THEN refLen
                      ELSE bamChunk.chunkBoundaryEnd) - bamChunk.chunkBoundaryStart]

\* lines 658-660: the reads and alignments the adapter finds for a chunk;
\* alignment i belongs to read i
ConvertToReadsAndAlignments == [reads |-> 1..bamReads, alignments |-> 1..bamReads]

\* poorMansDownsample (declared in htsIntegration.h): either a no-op that
\* returns false and leaves the four lists empty, or true with the reads
\* split into a non-empty filtered list and the discarded rest
NoDownsample == [didDownsample |-> FALSE, filtered |-> {}, discarded |-> {}]
PoorMansDownsample(reads) ==
    {NoDownsample}
    \cup { [didDownsample |-> TRUE, filtered |-> f, discarded |-> reads \ f] :
             f \in (SUBSET reads) \ {{}} }

\* lines 663-696: the lists the task goes on with, and the element sets the
\* calls of stList_destruct destroy, in order
DownsampleKeepingDestructor(lists, o) ==
    IF o.didDownsample
    THEN [lists |-> [reads |-> o.filtered, alignments |-> o.filtered],
          destroyedReads |-> <<o.discarded, lists.reads>>,
          destroyedAlignments |-> <<o.discarded, lists.alignments>>]
    ELSE [lists |-> lists,
          destroyedReads |-> <<o.filtered, o.discarded>>,
          destroyedAlignments |-> <<o.filtered, o.discarded>>]

Downsample(lists, o) ==
    IF o.didDownsample
    THEN [lists |-> [reads |-> o.filtered, alignments |-> o.filtered],
          destroyedReads |-> <<o.discarded>>,
          destroyedAlignments |-> <<o.discarded>>]
    ELSE [lists |-> lists,
          destroyedReads |-> <<o.filtered, o.discarded>>,
          destroyedAlignments |-> <<o.filtered, o.discarded>>]

\* The destruction counts after the elements of each set of sets were destroyed
Destroy(counts, sets) ==
    [i \in DOMAIN counts |->
        counts[i] + Cardinality({j \in 1..Len(sets) : i \in sets[j]})]

\* lines 724-751: the optional outputs a task writes
Dumps ==
    (IF opts.outputPoaDotBase # NULL THEN {"poaDot"} ELSE {})
    \cup (IF opts.outputPoaTsvBase # NULL THEN {"poaTsv"} ELSE {})
    \cup (IF opts.outputRepeatCountBase # NULL THEN {"repeatCount"} ELSE {})

\* lines 639-751: entry checks, then the thread-local work on the chunk
\* (reference substring, reads and alignments, downsampling, POA, dumps)
EnterChunk(t) ==
    /\ Running /\ InTeam(t)
    /\ tpc[t] = "entry"
    /\ LET bamChunk == bamChunker.chunks[tChunkIdx[t] + 1]
           r == EntryFatal(bamChunk)
           converted == ConvertToReadsAndAlignments
       IN IF r # "ok"
          THEN /\ mainPc' = "exit" /\ exitCode' = 1 /\ abortedAt' = r
               /\ UNCHANGED <<tpc, taskLog, chunkLog, tReads>>
          ELSE /\ tpc' = [tpc EXCEPT ![t] = IF opts.diploid THEN "save" ELSE "write"]
               /\ taskLog' = [taskLog EXCEPT ![tChunkIdx[t] + 1] = @ \o PolishStages]
               /\ \E o \in (IF params.maxDepth > 0 THEN PoorMansDownsample(converted.reads)
                             ELSE {NoDownsample}) :
                     LET d == IF params.maxDepth > 0 THEN Downsample(converted, o)
                              ELSE [lists |-> converted, destroyedReads |-> <<>>,
                                    destroyedAlignments |-> <<>>]
                     IN /\ tReads' = [tReads EXCEPT ![t] = d.lists]
                        /\ chunkLog' = [chunkLog EXCEPT ![tChunkIdx[t] + 1] =
                              [reference |-> BamChunkGetReferenceSubstring(bamChunk),
                               reads |-> converted.reads,
                               alignments |-> converted.alignments,
                               didDownsample |-> o.didDownsample,
                               filtered |-> o.filtered,
                               poaReads |-> d.lists.reads,
                               poaAlignments |-> d.lists.alignments,
                               destroyedReads |-> Destroy(@.destroyedReads, d.destroyedReads),
                               destroyedAlignments |->
                                   Destroy(@.destroyedAlignments, d.destroyedAlignments),
                               dumps |-> Dumps]]
               /\ UNCHANGED <<mainPc, exitCode, abortedAt>>
    /\ UNCHANGED <<setupVars, params, results, nextIter, tIter, tChunkIdx,
                   tUseReadAlleles, tBg, slotWrites, constructSeen>>

\* line 758: bool useReadAlleles = params->polishParams->useReadAlleles
SaveUseReadAlleles(t) ==
    /\ Running /\ InTeam(t)
    /\ tpc[t] = "save"
    /\ tUseReadAlleles' = [tUseReadAlleles EXCEPT ![t] = params.useReadAlleles]
    /\ tpc' = [tpc EXCEPT ![t] = "set"]
    /\ UNCHANGED <<setupVars, mainPc, exitCode, abortedAt, params, results, nextIter,
                   tIter, tChunkIdx, tBg, tReads, slotWrites, constructSeen, taskLog, chunkLog>>

\* line 759: params->polishParams->useReadAlleles = ...->useReadAllelesInPhasing
SetUseReadAlleles(t) ==
    /\ Running /\ InTeam(t)
    /\ tpc[t] = "set"
    /\ params' = [params EXCEPT !.useReadAlleles = params.useReadAllelesInPhasing]
    /\ tpc' = [tpc EXCEPT ![t] = "construct"]
    /\ UNCHANGED <<setupVars, mainPc, exitCode, abortedAt, results, nextIter, tIter,
                   tChunkIdx, tUseReadAlleles, tBg, tReads, slotWrites, constructSeen, taskLog, chunkLog>>

\* line 760: bubbleGraph_constructFromPoa(poa, reads, params->polishParams)
ConstructBubbleGraph(t) ==
    /\ Running /\ InTeam(t)
    /\ tpc[t] = "construct"
    /\ tBg' = [tBg EXCEPT ![t] = params.useReadAlleles]
    /\ constructSeen' = [constructSeen EXCEPT ![tChunkIdx[t] + 1] = Append(@, params.useReadAlleles)]
    /\ taskLog' = [taskLog EXCEPT ![tChunkIdx[t] + 1] = Append(@, "bubbleGraph_constructFromPoa")]
    /\ tpc' = [tpc EXCEPT ![t] = "restore"]
    /\ UNCHANGED <<setupVars, mainPc, exitCode, abortedAt, params, results, nextIter,
                   tIter, tChunkIdx, tUseReadAlleles, tReads, slotWrites, chunkLog>>

\* line 761: params->polishParams->useReadAlleles = useReadAlleles
RestoreUseReadAlleles(t) ==
    /\ Running /\ InTeam(t)
    /\ tpc[t] = "restore"
    /\ params' = [params EXCEPT !.useReadAlleles = tUseReadAlleles[t]]
    /\ tpc' = [tpc EXCEPT ![t] = "write"]
    /\ UNCHANGED <<setupVars, mainPc, exitCode, abortedAt, results, nextIter, tIter,
                   tChunkIdx, tUseReadAlleles, tBg, tReads, slotWrites, constructSeen, taskLog, chunkLog>>

\* What a task leaves in its slot of array a: the consensus of its chunk; in
\* diploid mode the haplotype consensus / read set that phasing derives from
\* the bubble graph bg.
PolishedResult(a, chunkIdx, bg) ==
    [kind |-> a, chunk |-> chunkIdx, readAlleles |-> IF opts.diploid THEN bg ELSE FALSE]

WrittenArrays == IF opts.diploid THEN Arrays ELSE {"chunkResults"}

\* lines 763-883 after the bubble graph: phasing and the haplotype POAs
\* (diploid), repeat counts (RLE), the stores into the result arrays, the cleanup
FinishStagesDestroyFirst ==
    (IF opts.diploid THEN <<"bubbleGraph_phaseBubbleGraph", "bubbleGraph_getNewPoa">> ELSE <<>>)
    \o (IF params.useRunLengthEncoding THEN <<"estimateRepeatCounts">> ELSE <<>>)
    \o <<"destroy", "writeSlot">>

FinishStages ==
    (IF opts.diploid THEN <<"bubbleGraph_phaseBubbleGraph", "bubbleGraph_getNewPoa">> ELSE <<>>)
    \o (IF params.useRunLengthEncoding THEN <<"estimateRepeatCounts">> ELSE <<>>)
    \o <<"writeSlot", "destroy">>

\* lines 763-883: phasing and haplotype POAs (diploid), repeat counts, the
\* stores into the result arrays (814-817, 857) and the task's cleanup
WriteResult(t) ==
    /\ Running /\ InTeam(t)
    /\ tpc[t] = "write"
    /\ LET chunkIdx == tChunkIdx[t]
       IN /\ results' = [a \in Arrays |->
                           IF a \in WrittenArrays
                           THEN [results[a] EXCEPT ![chunkIdx + 1] = PolishedResult(a, chunkIdx, tBg[t])]
                           ELSE results[a]]
          /\ slotWrites' = [a \in Arrays |->
                              IF a \in WrittenArrays
                              THEN [slotWrites[a] EXCEPT ![chunkIdx + 1] = Append(@, tIter[t])]
                              ELSE slotWrites[a]]
          /\ taskLog' = [taskLog EXCEPT ![chunkIdx + 1] = @ \o FinishStages]
          \* lines 880-881: stList_destruct(reads), stList_destruct(alignments)
          /\ chunkLog' = [chunkLog EXCEPT
                ![chunkIdx + 1].destroyedReads = Destroy(@, <<tReads[t].reads>>),
                ![chunkIdx + 1].destroyedAlignments = Destroy(@, <<tReads[t].alignments>>)]
    /\ tReads' = [tReads EXCEPT ![t] = NoLists]
    /\ tpc' = [tpc EXCEPT ![t] = "idle"]
    /\ UNCHANGED <<setupVars, mainPc, exitCode, abortedAt, params, nextIter, tIter,
                   tChunkIdx, tUseReadAlleles, tBg, constructSeen>>

\* ------------------------------------------------------------ merge
\* The implicit barrier that ends the parallel for (lines 596-599, 883).
JoinAfterDispatch == nextIter = chunkCount

JoinNever == TRUE

JoinReached == nextIter = chunkCount /\ \A t \in Threads : tpc[t] = "idle"

\* mergeContigChunksThreaded over chunks [from, to): the slots in index order.
MergeContigChunks(res, from, to) == SubSeq(res, from + 1, to)

\* The loop of handleMerge (lines 132-167): the ranges [contigStartIdx, chunkIdx)
\* it hands to the contig merger, with the name each is written under.
RECURSIVE MergeLoop(_, _, _, _, _)
MergeLoop(chunks, chunkIdx, contigStartIdx, referenceSequenceName, runs) ==
    IF chunkIdx > Len(chunks) THEN runs
    ELSE IF chunkIdx = Len(chunks) \/ referenceSequenceName # chunks[chunkIdx + 1].refSeqName
    THEN LET runs2 == Append(runs, [name |-> referenceSequenceName,
                                    from |-> contigStartIdx, to |-> chunkIdx])
         IN IF chunkIdx # Len(chunks)
            THEN MergeLoop(chunks, chunkIdx + 1, chunkIdx, chunks[chunkIdx + 1].refSeqName, runs2)
            ELSE MergeLoop(chunks, chunkIdx + 1, contigStartIdx, referenceSequenceName, runs2)
    ELSE MergeLoop(chunks, chunkIdx + 1, contigStartIdx, referenceSequenceName, runs)

\* lines 123-124, then the loop
MergeRunsFromOne(chunks) == MergeLoop(chunks, 1, 1, chunks[1].refSeqName, <<>>)

MergeRuns(chunks) == MergeLoop(chunks, 1, 0, chunks[1].refSeqName, <<>>)

\* handleMerge: the records fastaWrite appends to BASE.fa
HandleMerge(chunks, chunkResults) ==
    LET runs == MergeRuns(chunks)
    IN [r \in 1..Len(runs) |->
          [name |-> runs[r].name,
           seq |-> MergeContigChunks(chunkResults, runs[r].from, runs[r].to)]]

\* handleDiploidMerge: the records appended to BASE.h1.fa (hap = 1) and BASE.h2.fa (hap = 2)
HandleDiploidMergeH2AtEnd(chunks, res, hap) ==
    LET runs == MergeRuns(chunks)
        first == IF hap = 2 THEN Len(runs) ELSE 1
    IN [r \in 1..(Len(runs) - first + 1) |->
          [name |-> runs[r + first - 1].name,
           seq |-> [hap |-> hap,
                    h1 |-> MergeContigChunks(res["chunkResults"], runs[r + first - 1].from, runs[r + first - 1].to),
                    h2 |-> MergeContigChunks(res["chunkResultsH2"], runs[r + first - 1].from, runs[r + first - 1].to),
                    readsH1 |-> MergeContigChunks(res["readSetsH1"], runs[r + first - 1].from, runs[r + first - 1].to),
                    readsH2 |-> MergeContigChunks(res["readSetsH2"], runs[r + first - 1].from, runs[r + first - 1].to)]]]

HandleDiploidMerge(chunks, res, hap) ==
    LET runs == MergeRuns(chunks)
    IN [r \in 1..Len(runs) |->
          [name |-> runs[r].name,
           seq |-> [hap |-> hap,
                    h1 |-> MergeContigChunks(res["chunkResults"], runs[r].from, runs[r].to),
                    h2 |-> MergeContigChunks(res["chunkResultsH2"], runs[r].from, runs[r].to),
                    readsH1 |-> MergeContigChunks(res["readSetsH1"], runs[r].from, runs[r].to),
                    readsH2 |-> MergeContigChunks(res["readSetsH2"], runs[r].from, runs[r].to)]]]

workerVars == <<results, chunkOrder, nextIter, tpc, tIter, tChunkIdx, tUseReadAlleles,
                tBg, tReads, slotWrites, constructSeen, taskLog, chunkLog>>

\* lines 885-891, with assert(bamChunker->chunkCount > 0) of lines 122 / 177
MergeChunks ==
    /\ Running /\ mainPc = "parallel"
    /\ JoinReached
    /\ mergeSeen' = [entered |-> TRUE, arrays |-> results]
    /\ IF chunkCount = 0
       THEN /\ mainPc' = "exit" /\ exitCode' = 134 /\ abortedAt' = "assert"
            /\ UNCHANGED out
       ELSE /\ out' = IF opts.diploid
                      THEN [out EXCEPT !.h1 = HandleDiploidMerge(bamChunker.chunks, results, 1),
                                       !.h2 = HandleDiploidMerge(bamChunker.chunks, results, 2)]
                      ELSE [out EXCEPT !.h1 = HandleMerge(bamChunker.chunks, results["chunkResults"])]
            /\ mainPc' = "cleanup"
            /\ UNCHANGED <<exitCode, abortedAt>>
    /\ UNCHANGED <<argv, paramsFile, bamReads, opts, files, fasta, trueReferenceBam, trueReferenceBamHap2, params,
                   referenceSequences, bamChunker, workerVars>>

\* lines 893-939: close the outputs, free everything, return 0
Finish ==
    /\ Running /\ mainPc = "cleanup"
    /\ out' = [out EXCEPT !.h1Open = FALSE, !.h2Open = FALSE]
    /\ mainPc' = "exit"
    /\ exitCode' = 0
    /\ abortedAt' = "none"
    /\ UNCHANGED <<argv, paramsFile, bamReads, opts, files, fasta, trueReferenceBam, trueReferenceBamHap2, params,
                   referenceSequences, bamChunker, mergeSeen, workerVars>>

\* ------------------------------------------------------------ specifications
Next ==
    \/ DiploidSanity
    \/ VerifyFilesExist
    \/ FeatureInit
    \/ ReadParams
    \/ CheckRle
    \/ ParseReferenceSequences
    \/ OpenOutputs
    \/ ConstructChunker
    \/ AllocResults
    \/ \E t \in Threads : FetchChunk(t)
    \/ \E t \in Threads : EnterChunk(t)
    \/ \E t \in Threads : SaveUseReadAlleles(t)
    \/ \E t \in Threads : SetUseReadAlleles(t)
    \/ \E t \in Threads : ConstructBubbleGraph(t)
    \/ \E t \in Threads : RestoreUseReadAlleles(t)
    \/ \E t \in Threads : WriteResult(t)
    \/ MergeChunks
    \/ Finish

Spec == Init /\ [][Next]_vars

\* parseReferenceSequences on any assembly.
InitRef ==
    /\ argv = PlainArgv
    /\ bamReads = 0
    /\ paramsFile \in ParamsFiles({FileDepth}, {TRUE})
    /\ opts = DefaultOpts
    /\ files = [f \in FileNames |-> f \in {"bam", "bai", "fasta", "params"}]
    /\ fasta \in AllFastas
    /\ mainPc = "refs"
    /\ InitProgram

NextRef == ParseReferenceSequences

SpecRef == InitRef /\ [][NextRef]_vars

\* main at the end of the parallel loop of a run without errors: every chunk
\* polished by iteration i = chunkIdx, lists of up to MaxMergeChunks chunks.
MergeChunkLists ==
    SeqsUpTo({c \in ChunkPool : c.chunkBoundaryStart = 0}, MaxMergeChunks) \ {<<>>}

InitMerge ==
    /\ argv = PlainArgv
    /\ bamReads = 0
    /\ paramsFile = [shuffleChunks |-> FALSE, useReadAlleles |-> FALSE,
                     useReadAllelesInPhasing |-> FALSE, maxDepth |-> FileDepth,
                     useRunLengthEncoding |-> TRUE,
                     chunkSize |-> MaxChunkSize, chunkBoundary |-> MaxChunkBoundary]
    /\ opts \in {[DefaultOpts EXCEPT !.diploid = d] : d \in BOOLEAN}
    /\ files = [f \in FileNames |-> f \in {"bam", "bai", "fasta", "params"}]
    /\ fasta = << [name |-> <<"a", " ", "b">>, seq |-> RefSeq(1)],
                  [name |-> <<"b">>, seq |-> RefSeq(2)] >>
    /\ mainPc = "parallel"
    /\ exitCode = -1
    /\ abortedAt = "none"
    /\ trueReferenceBam = NULL
    /\ trueReferenceBamHap2 = NULL
    /\ params = [loaded |-> TRUE, shuffleChunks |-> FALSE, useReadAlleles |-> FALSE,
                 useReadAllelesInPhasing |-> FALSE, maxDepth |-> FileDepth,
                 useRunLengthEncoding |-> TRUE,
                 chunkSize |-> MaxChunkSize, chunkBoundary |-> MaxChunkBoundary]
    /\ referenceSequences = ParseReferenceSequencesOp(fasta, << <<"a", " ", "b">>, <<"b">> >>)
    /\ out = [h1Open |-> TRUE, h2Open |-> opts.diploid, h1 |-> <<>>, h2 |-> <<>>,
              h1File |-> polishedReferenceOutFile, h2File |-> polishedReferenceOutFileH2]
    /\ bamChunker \in {[built |-> TRUE, chunks |-> c] : c \in MergeChunkLists}
    /\ results = [a \in Arrays |->
                    IF a \in WrittenArrays
                    THEN [k \in 1..chunkCount |-> PolishedResult(a, k - 1, FALSE)]
                    ELSE <<>>]
    /\ chunkOrder = Identity(chunkCount)
    /\ nextIter = chunkCount
    /\ tpc = [t \in Threads |-> "idle"]
    /\ tIter = [t \in Threads |-> IF t = 1 THEN chunkCount - 1 ELSE -1]
    /\ tChunkIdx = [t \in Threads |-> IF t = 1 THEN chunkCount - 1 ELSE -1]
    /\ tUseReadAlleles = [t \in Threads |-> FALSE]
    /\ tBg = [t \in Threads |-> FALSE]
    /\ tReads = [t \in Threads |-> NoLists]
    /\ slotWrites = [a \in Arrays |->
                       [k \in 1..chunkCount |-> IF a \in WrittenArrays THEN <<k - 1>> ELSE <<>>]]
    /\ constructSeen = [k \in 1..chunkCount |-> IF opts.diploid THEN <<FALSE>> ELSE <<>>]
    /\ mergeSeen = [entered |-> FALSE, arrays |-> NoArrays]
    /\ taskLog = [k \in 1..chunkCount |->
                    PolishStages
                    \o (IF opts.diploid THEN <<"bubbleGraph_constructFromPoa">> ELSE <<>>)
                    \o FinishStages]
    /\ chunkLog = [k \in 1..chunkCount |->
                     [NewChunkLog EXCEPT
                        !.reference = BamChunkGetReferenceSubstring(bamChunker.chunks[k])]]

NextMerge == MergeChunks \/ Finish

SpecMerge == InitMerge /\ [][NextMerge]_vars

\* The windows a chunker can hand out on contig a: ordered
\* (chunkBoundaryStart <= chunkBoundaryEnd), but computed from the alignment
\* header, so they need not fit the assembly's contig.
TaskChunks ==
    UNION { { [refSeqName |-> <<"a">>, chunkBoundaryStart |-> s, chunkBoundaryEnd |-> e] :
                e \in s..(ContigLen + 2) } : s \in 0..(ContigLen + 1) }

\* One chunk task on one thread, from the state lines 569-594 leave: any
\* number of reads up to MaxReads; downsampling on or off.

InitTask ==
    /\ argv = PlainArgv
    /\ bamReads \in 0..MaxReads
    /\ paramsFile \in {[shuffleChunks |-> FALSE, useReadAlleles |-> FALSE,
                         useReadAllelesInPhasing |-> FALSE, maxDepth |-> d,
                         useRunLengthEncoding |-> TRUE,
                         chunkSize |-> MaxChunkSize, chunkBoundary |-> MaxChunkBoundary] :
                            d \in {0, FileDepth}}
    /\ opts \in {[DefaultOpts EXCEPT !.diploid = d] : d \in BOOLEAN}
    /\ files = [f \in FileNames |-> f \in {"bam", "bai", "fasta", "params"}]
    /\ fasta = << [name |-> <<"a">>, seq |-> RefSeq(1)] >>
    /\ mainPc = "parallel"
    /\ exitCode = -1
    /\ abortedAt = "none"
    /\ trueReferenceBam = NULL
    /\ trueReferenceBamHap2 = NULL
    /\ params = [loaded |-> TRUE, shuffleChunks |-> FALSE, useReadAlleles |-> FALSE,
                 useReadAllelesInPhasing |-> FALSE, maxDepth |-> paramsFile.maxDepth,
                 useRunLengthEncoding |-> TRUE,
                 chunkSize |-> MaxChunkSize, chunkBoundary |-> MaxChunkBoundary]
    /\ referenceSequences = ParseReferenceSequencesOp(fasta, << <<"a">> >>)
    /\ out = [h1Open |-> TRUE, h2Open |-> opts.diploid, h1 |-> <<>>, h2 |-> <<>>,
              h1File |-> polishedReferenceOutFile, h2File |-> polishedReferenceOutFileH2]
    /\ bamChunker \in {[built |-> TRUE, chunks |-> <<c>>] :
                          c \in TaskChunks}
    /\ results = [a \in Arrays |->
                    IF a = "chunkResults" \/ opts.diploid
                    THEN [k \in 1..chunkCount |-> NullSlot] ELSE <<>>]
    /\ chunkOrder = Identity(chunkCount)
    /\ nextIter = 0
    /\ tpc = [t \in Threads |-> "idle"]
    /\ tIter = [t \in Threads |-> -1]
    /\ tChunkIdx = [t \in Threads |-> -1]
    /\ tUseReadAlleles = [t \in Threads |-> FALSE]
    /\ tBg = [t \in Threads |-> FALSE]
    /\ tReads = [t \in Threads |-> NoLists]
    /\ slotWrites = [a \in Arrays |-> [k \in 1..chunkCount |-> <<>>]]
    /\ constructSeen = [k \in 1..chunkCount |-> <<>>]
    /\ mergeSeen = [entered |-> FALSE, arrays |-> NoArrays]
    /\ taskLog = [k \in 1..chunkCount |-> <<>>]
    /\ chunkLog = [k \in 1..chunkCount |-> NewChunkLog]

NextTask ==
    \/ \E t \in Threads : FetchChunk(t)
    \/ \E t \in Threads : EnterChunk(t)
    \/ \E t \in Threads : SaveUseReadAlleles(t)
    \/ \E t \in Threads : SetUseReadAlleles(t)
    \/ \E t \in Threads : ConstructBubbleGraph(t)
    \/ \E t \in Threads : RestoreUseReadAlleles(t)
    \/ \E t \in Threads : WriteResult(t)

SpecTask == InitTask /\ [][NextTask]_vars

\* main at the construction of the chunker, for every chunk size up to
\* MaxChunkSize, boundary up to MaxChunkBoundary, with and without a region.
InitChunker ==
    /\ argv = PlainArgv
    /\ bamReads = 0
    /\ paramsFile \in [shuffleChunks : {FALSE}, useReadAlleles : {FALSE},
                        useReadAllelesInPhasing : {FALSE}, maxDepth : {FileDepth},
                        useRunLengthEncoding : {TRUE},
                        chunkSize : 1..MaxChunkSize, chunkBoundary : 0..MaxChunkBoundary]
    /\ opts \in {[DefaultOpts EXCEPT !.regionStr = r] : r \in {NULL} \cup RegionStrs}
    /\ files = [f \in FileNames |-> f \in {"bam", "bai", "fasta", "params"}]
    /\ fasta = << [name |-> <<"a">>, seq |-> RefSeq(1)] >>
    /\ mainPc = "chunker"
    /\ exitCode = -1
    /\ abortedAt = "none"
    /\ trueReferenceBam = NULL
    /\ trueReferenceBamHap2 = NULL
    /\ params = [loaded |-> TRUE, shuffleChunks |-> FALSE, useReadAlleles |-> FALSE,
                 useReadAllelesInPhasing |-> FALSE, maxDepth |-> FileDepth,
                 useRunLengthEncoding |-> TRUE,
                 chunkSize |-> paramsFile.chunkSize, chunkBoundary |-> paramsFile.chunkBoundary]
    /\ referenceSequences = ParseReferenceSequencesOp(fasta, << <<"a">> >>)
    /\ out = [h1Open |-> TRUE, h2Open |-> FALSE, h1 |-> <<>>, h2 |-> <<>>,
              h1File |-> polishedReferenceOutFile, h2File |-> NoFile]
    /\ bamChunker = [built |-> FALSE, chunks |-> <<>>]
    /\ results = NoArrays
    /\ chunkOrder = <<>>
    /\ nextIter = 0
    /\ tpc = [t \in Threads |-> "idle"]
    /\ tIter = [t \in Threads |-> -1]
    /\ tChunkIdx = [t \in Threads |-> -1]
    /\ tUseReadAlleles = [t \in Threads |-> FALSE]
    /\ tBg = [t \in Threads |-> FALSE]
    /\ tReads = [t \in Threads |-> NoLists]
    /\ slotWrites = NoArrays
    /\ constructSeen = <<>>
    /\ mergeSeen = [entered |-> FALSE, arrays |-> NoArrays]
    /\ taskLog = <<>>
    /\ chunkLog = <<>>

NextChunker == ConstructChunkerFromHeader

SpecChunker == InitChunker /\ [][NextChunker]_vars

\* main from its first line, on command lines of up to MaxOpts option words.
Word(form, name, arg) == [form |-> form, name |-> name, arg |-> arg]
CliWords ==
    { Word("short", "2", ""), Word("long", "diploid", ""), Word("short", "h", ""),
      Word("short", "x", ""), Word("short", "f", ""), Word("short", "i", "rc"),
      Word("short", "u", "truth1"), Word("short", "t", "2"), Word("short", "L", "5") }
    \cup { Word("short", "p", d) : d \in {"-1", "0", "2"} }
    \cup { Word("short", "F", f) : f \in {"simpleWeight", "splitRleWeight", "channelRleWeight",
                                          "diploidRleWeight", "bogus"} }
CmdLines ==
    { [npos |-> n, optv |-> <<>>] : n \in 0..2 }
    \cup { [npos |-> 3, optv |-> v] : v \in SeqsUpTo(CliWords, MaxOpts) }

InitCli ==
    /\ argv \in CmdLines
    /\ bamReads = 0
    /\ paramsFile \in { f \in ParamsFiles({0, FileDepth}, BOOLEAN) :
                           ~f.shuffleChunks /\ ~f.useReadAlleles /\ ~f.useReadAllelesInPhasing }
    /\ opts = DefaultOpts
    /\ files = [f \in FileNames |-> TRUE]
    /\ fasta = << [name |-> <<"a">>, seq |-> RefSeq(1)] >>
    /\ mainPc = "options"
    /\ InitProgram

NextCli == ParseOptions \/ Next

SpecCli == InitCli /\ [][NextCli]_vars

\* ------------------------------------------------------------ properties
ExitedNonzero == mainPc = "exit" /\ exitCode # 0 /\ exitCode # -1
AllTasksFinished == nextIter = chunkCount /\ \A t \in Threads : tpc[t] = "idle"
PastSanityCheck == mainPc \notin {"diploidCheck", "sanity"}
NothingStarted ==
    /\ ~params.loaded
    /\ ~out.h1Open /\ ~out.h2Open
    /\ nextIter = 0
TaskFatal == abortedAt \in {"referenceMissing", "startBeyondContig"}

\* C1: every slot of every result array is written at most once, only by the
\* loop iteration whose chunk index (chunkOrder entry) is that slot, and once
\* all tasks have finished each slot of the arrays in use has been written
\* exactly once (the arrays not in use never).
C1_SlotWrittenOnceByOwnChunk ==
    \A a \in Arrays : \A k \in 1..Len(slotWrites[a]) :
        /\ Len(slotWrites[a][k]) <= 1
        /\ \A w \in 1..Len(slotWrites[a][k]) : chunkOrder[slotWrites[a][k][w] + 1] = k - 1
        /\ a \notin WrittenArrays => slotWrites[a][k] = <<>>
        /\ (mergeSeen.entered /\ a \in WrittenArrays) => Len(slotWrites[a][k]) = 1

C1_Witness ==
    /\ mainPc = "cleanup"
    /\ opts.diploid /\ opts.numThreads >= 2 /\ chunkCount >= 2
    /\ chunkOrder # Identity(chunkCount)
    /\ \A a \in Arrays : \A k \in 1..chunkCount : Len(slotWrites[a][k]) = 1

\* C2: when the merger is entered every slot of the arrays in use is
\* populated, and a contig record is in an output FASTA only if every chunk
\* task has finished.
C2_MergeOnlyAfterAllTasks ==
    /\ mergeSeen.entered =>
          \A a \in WrittenArrays : \A k \in 1..chunkCount : mergeSeen.arrays[a][k] # NullSlot
    /\ (out.h1 # <<>> \/ out.h2 # <<>>) => AllTasksFinished

C2_Witness ==
    /\ mergeSeen.entered
    /\ out.h1 # <<>>
    /\ opts.numThreads >= 2 /\ chunkCount >= 2

\* What the task of chunk k stores when it runs with no other task beside it.
SequentialResult(a, k) ==
    [kind |-> a, chunk |-> k,
     readAlleles |-> IF opts.diploid THEN params.useReadAllelesInPhasing ELSE FALSE]
SequentialArrays ==
    [a \in Arrays |-> IF a \in WrittenArrays
                      THEN [k \in 1..chunkCount |-> SequentialResult(a, k - 1)]
                      ELSE <<>>]

\* C3: the result arrays the merger reads, and the records it writes, are a
\* function of the chunk list and the parameters alone: the same for every
\* chunkOrder and every interleaving of the threads.
C3_MergerInputIndependentOfSchedule ==
    mergeSeen.entered =>
        /\ mergeSeen.arrays = SequentialArrays
        /\ out.h1 = IF opts.diploid
                    THEN HandleDiploidMerge(bamChunker.chunks, SequentialArrays, 1)
                    ELSE HandleMerge(bamChunker.chunks, SequentialArrays["chunkResults"])
        /\ out.h2 = IF opts.diploid
                    THEN HandleDiploidMerge(bamChunker.chunks, SequentialArrays, 2)
                    ELSE <<>>

\* C4: while the chunk loop runs, no step changes the parameter set or the
\* reference map.
C4_WorkersOnlyReadParamsAndReferences ==
    [][mainPc = "parallel" => (params' = params /\ referenceSequences' = referenceSequences)]_vars

\* C5: every call of bubbleGraph_constructFromPoa sees useReadAlleles equal to
\* useReadAllelesInPhasing.
C5_ConstructSeesPhasingFlag ==
    \A k \in 1..Len(constructSeen) : \A j \in 1..Len(constructSeen[k]) :
        constructSeen[k][j] = params.useReadAllelesInPhasing

\* A name cut at its first white-space character.
FirstSpace(s) ==
    IF \E i \in 1..Len(s) : IsSpace(s[i])
    THEN CHOOSE i \in 1..Len(s) : IsSpace(s[i]) /\ \A j \in 1..(i - 1) : ~IsSpace(s[j])
    ELSE Len(s) + 1
CutAtFirstSpace(s) == SubSeq(s, 1, FirstSpace(s) - 1)

\* C6: after parseReferenceSequences every record's sequence is held under its
\* name cut at the first white-space character, and no key of the map contains
\* a white-space character.
C6_KeysCutAtFirstSpace ==
    mainPc = "openOut" =>
        /\ \A i \in 1..Len(fasta) :
              /\ CutAtFirstSpace(fasta[i].name) \in DOMAIN referenceSequences
              /\ referenceSequences[CutAtFirstSpace(fasta[i].name)] = fasta[i].seq
        /\ \A key \in DOMAIN referenceSequences : \A j \in 1..Len(key) : ~IsSpace(key[j])

\* C7: a chunker with zero chunks ends the process with a nonzero exit code
\* before any chunk task has started and without the merger being entered.
C7_EmptyWorksetAborts ==
    (bamChunker.built /\ chunkCount = 0) =>
        /\ ExitedNonzero
        /\ nextIter = 0 /\ \A t \in Threads : tpc[t] = "idle"
        /\ ~mergeSeen.entered

C7_Witness ==
    /\ bamChunker.built /\ chunkCount = 0
    /\ abortedAt = "noValidReads"

\* C8: once a chunk task has hit a fatal error the process has ended with a
\* nonzero exit code and no contig record is in any output FASTA.
C8_FatalTaskLeavesNoRecords ==
    TaskFatal => (ExitedNonzero /\ out.h1 = <<>> /\ out.h2 = <<>>)

C8_Witness ==
    /\ TaskFatal
    /\ opts.numThreads >= 2
    /\ \E k \in 1..chunkCount : results["chunkResults"][k] # NullSlot

\* C9: with a readable alignment file whose .bai index is unreadable, the
\* sanity check ends the process with a nonzero exit code before parameters
\* are parsed or output files are opened.
C9_MissingIndexAborts ==
    (files["bam"] /\ ~files["bai"] /\ PastSanityCheck) => (ExitedNonzero /\ NothingStarted)

SomeInputUnreadable ==
    \/ ~files["bam"] \/ ~files["fasta"] \/ ~files["params"]
    \/ (trueReferenceBam # NULL /\ ~files[trueReferenceBam])
    \/ (trueReferenceBamHap2 # NULL /\ ~files[trueReferenceBamHap2])

\* C10: if the alignment file, the assembly, the parameter file or a supplied
\* truth alignment is unreadable, the process ends with a nonzero exit code
\* before parameters are parsed, outputs are opened or a chunk is processed.
C10_UnreadableInputAborts ==
    (SomeInputUnreadable /\ PastSanityCheck) => (ExitedNonzero /\ NothingStarted)

C10_Witness ==
    /\ abortedAt = "trueReferenceBamHap2"
    /\ files["bam"] /\ files["fasta"] /\ files["params"] /\ files["truth1"]
    /\ ~files["truth2"]

\* ------------------------------------------------------------ C11
Short2 == Word("short", "2", "")
LongDiploid == Word("long", "diploid", "")
OptionsParsed == mainPc # "options"
TaskFinished(k) ==
    /\ k \in DOMAIN taskLog
    /\ taskLog[k] # <<>>
    /\ taskLog[k][Len(taskLog[k])] = "destroy"
Stages(k) == {taskLog[k][i] : i \in 1..Len(taskLog[k])}
Merged == mainPc \in {"cleanup", "exit"} /\ mergeSeen.entered /\ abortedAt = "none"

\* C11: a command line whose options are -2 (and possibly --diploid) runs in
\* diploid mode: the option loop goes on to the pipeline, every finished task
\* has phased its chunk, and the merge writes both haplotype files.
C11_ShortDiploidOptionTurnsDiploidOn ==
    (/\ OptionsParsed
     /\ argv.optv # <<>>
     /\ \A i \in 1..Len(argv.optv) : argv.optv[i] \in {Short2, LongDiploid}
     /\ \E i \in 1..Len(argv.optv) : argv.optv[i] = Short2)
    => /\ abortedAt # "usage"
       /\ opts.diploid
       /\ \A k \in DOMAIN taskLog :
             TaskFinished(k) => "bubbleGraph_phaseBubbleGraph" \in Stages(k)
       /\ Merged => Len(out.h2) = Len(out.h1) /\ Len(out.h2) > 0

\* ------------------------------------------------------------ C12
\* C12: a haploid run writes to BASE.fa alone; a diploid run writes to
\* BASE.h1.fa and BASE.h2.fa, and after the merge the two files hold the same
\* number of records with the same names in the same order.
C12_OutputFilesAndHeadersAgree ==
    /\ out.h1Open =>
          /\ out.h1File = [base |-> opts.outputBase, ext |-> IF opts.diploid THEN ".h1.fa" ELSE ".fa"]
          /\ opts.diploid /\ mainPc # "exit" => out.h2Open
    /\ out.h2Open => opts.diploid /\ out.h2File = [base |-> opts.outputBase, ext |-> ".h2.fa"]
    /\ ~opts.diploid => out.h2 = <<>> /\ out.h2File = NoFile /\ ~out.h2Open
    /\ out.h1 # <<>> => out.h1File # NoFile
    /\ out.h2 # <<>> => out.h2File # NoFile
    /\ opts.diploid /\ Merged =>
          /\ Len(out.h1) = Len(out.h2)
          /\ \A k \in 1..Len(out.h1) : out.h1[k].name = out.h2[k].name

\* A diploid run has written two contigs to each haplotype file.
C12_Witness ==
    /\ opts.diploid /\ mainPc = "exit" /\ exitCode = 0
    /\ Len(out.h1) = 2 /\ Len(out.h2) = 2
    /\ out.h1[1].name # out.h1[2].name

\* ------------------------------------------------------------ C13
\* Option words the loop passes over without ending the process.
Harmless(w) ==
    \/ w.name \in {"diploid", "f", "i", "u", "t", "L"}
    \/ w.name = "p" /\ w.arg # "-1"
    \/ w.name = "F" /\ w.arg # "bogus"
DepthWords == {i \in 1..Len(argv.optv) : argv.optv[i].name = "p"}
LastDepthArg ==
    IF DepthWords = {} THEN "none"
    ELSE argv.optv[CHOOSE i \in DepthWords : \A j \in DepthWords : j <= i].arg
\* The depth the tasks are to use: D of the last -p D, else the file's value.
ExpectedDepth ==
    CASE LastDepthArg = "0" -> 0
      [] LastDepthArg = "2" -> 2
      [] OTHER -> paramsFile.maxDepth

\* C13: -p D with D >= 0 makes every task use depth D whatever the parameter
\* file says (a task downsamples exactly if that depth is positive), -p D with
\* D < 0 aborts, and without -p the parameter file's depth is used.
C13_DepthOptionOverridesFile ==
    /\ \A i \in DepthWords :
          (/\ OptionsParsed
           /\ argv.optv[i].arg = "-1"
           /\ \A j \in 1..(i - 1) : Harmless(argv.optv[j]))
          => mainPc = "exit" /\ exitCode = 1 /\ abortedAt = "maxDepth"
    /\ params.loaded => params.maxDepth = ExpectedDepth
    /\ \A k \in DOMAIN taskLog :
          taskLog[k] # <<>> => ("poorMansDownsample" \in Stages(k) <=> ExpectedDepth > 0)

\* A task has run without downsampling under -p 0 although the file asks for
\* a positive depth.
C13_Witness ==
    /\ LastDepthArg = "0" /\ paramsFile.maxDepth > 0
    /\ \E k \in DOMAIN taskLog : TaskFinished(k) /\ "poorMansDownsample" \notin Stages(k)

\* ------------------------------------------------------------ C14
PastRleCheck == params.loaded /\ mainPc # "rleCheck"
RleFeatures == {"HFEAT_SPLIT_RLE_WEIGHT", "HFEAT_CHANNEL_RLE_WEIGHT", "HFEAT_DIPLOID_RLE_WEIGHT"}

\* C14: the RLE check aborts exactly when the feature type is simpleWeight
\* with run-length encoding on, or another feature type with run-length
\* encoding off; without a feature type it never aborts.
C14_RleCheckFatalOnContradiction ==
    PastRleCheck =>
        (abortedAt = "runLengthEncoding"
         <=> \/ opts.helenFeatureType = "HFEAT_SIMPLE_WEIGHT" /\ paramsFile.useRunLengthEncoding
             \/ opts.helenFeatureType \in RleFeatures /\ ~paramsFile.useRunLengthEncoding)

\* The check has aborted a run whose default feature type is the diploid one
\* and whose parameter file turns run-length encoding off.
C14_Witness ==
    /\ abortedAt = "runLengthEncoding" /\ exitCode = 1
    /\ opts.helenFeatureType = "HFEAT_DIPLOID_RLE_WEIGHT"
    /\ ~paramsFile.useRunLengthEncoding

\* ------------------------------------------------------------ C15
PastFeatureInit == OptionsParsed /\ mainPc \notin {"diploidCheck", "sanity", "featureInit"}

\* C15: the four values of -F select four distinct variants, and without -L
\* each RLE variant gets its own default run-length cap.
C15_FeatureTypesDistinct ==
    (OptionsParsed /\ Len(argv.optv) = 1 /\ argv.optv[1].name = "F" /\ argv.optv[1].arg # "bogus")
    => LET f == argv.optv[1].arg
       IN /\ f = "simpleWeight" => opts.helenFeatureType = "HFEAT_SIMPLE_WEIGHT"
          /\ f = "splitRleWeight" => opts.helenFeatureType = "HFEAT_SPLIT_RLE_WEIGHT"
          /\ f = "channelRleWeight" => opts.helenFeatureType = "HFEAT_CHANNEL_RLE_WEIGHT"
          /\ f = "diploidRleWeight" => opts.helenFeatureType = "HFEAT_DIPLOID_RLE_WEIGHT"
          /\ PastFeatureInit /\ f = "splitRleWeight" =>
                opts.splitWeightMaxRunLength = POAFEATURE_SPLIT_MAX_RUN_LENGTH_DEFAULT
          /\ PastFeatureInit /\ f = "channelRleWeight" =>
                opts.splitWeightMaxRunLength = POAFEATURE_CHANNEL_MAX_RUN_LENGTH_DEFAULT
          /\ PastFeatureInit /\ f = "diploidRleWeight" =>
                opts.splitWeightMaxRunLength = POAFEATURE_DIPLOID_MAX_RUN_LENGTH_DEFAULT

\* ------------------------------------------------------------ C16
HelpRequested == \E i \in 1..Len(argv.optv) : argv.optv[i].name = "h"
Succeeded ==
    /\ mergeSeen.entered
    /\ out.h1 # <<>>
    /\ \A k \in DOMAIN taskLog : TaskFinished(k)

\* C16: the process ends with exit code 0 only after polishing and merging
\* completed and the output was written, or when -h asked for the usage.
C16_ExitZeroOnlyOnSuccess ==
    mainPc = "exit" /\ exitCode = 0 => Succeeded \/ HelpRequested

\* ------------------------------------------------------------ C18
\* The chunk indices merged into the r-th record of the first output file.
RecordSlots(r) == IF opts.diploid THEN out.h1[r].seq.h1 ELSE out.h1[r].seq
RecordChunk(r, i) == RecordSlots(r)[i].chunk
RecordLast(r) == RecordChunk(r, Len(RecordSlots(r)))
ChunkName(k) == bamChunker.chunks[k + 1].refSeqName
ContigsContiguous ==
    \A i, j, k \in 0..(chunkCount - 1) :
        i < j /\ j < k /\ ChunkName(i) = ChunkName(k) => ChunkName(j) = ChunkName(i)

\* C18: the records written by the merge are the maximal runs of consecutive
\* chunks with equal refSeqName: each record merges a non-empty range of
\* consecutive chunk indices, the ranges follow one another from 0 to
\* chunkCount - 1, every chunk of a record bears the record's name, neighbouring
\* records bear different names, and contigs whose chunks are contiguous get
\* one record each.
C18_MergeWritesMaximalRuns ==
    Merged =>
        LET n == Len(out.h1)
        IN /\ n > 0
           /\ \A r \in 1..n :
                 /\ Len(RecordSlots(r)) > 0
                 /\ \A i \in 1..Len(RecordSlots(r)) :
                       /\ RecordChunk(r, i) = RecordChunk(r, 1) + i - 1
                       /\ ChunkName(RecordChunk(r, i)) = out.h1[r].name
           /\ RecordChunk(1, 1) = 0
           /\ RecordLast(n) = chunkCount - 1
           /\ \A r \in 1..(n - 1) :
                 /\ RecordChunk(r + 1, 1) = RecordLast(r) + 1
                 /\ out.h1[r].name # out.h1[r + 1].name
           /\ ContigsContiguous =>
                 \A r, q \in 1..n : out.h1[r].name = out.h1[q].name => r = q

\* A haploid merge of four chunks has written three records, the middle one
\* from two chunks.
C18_Witness ==
    /\ Merged /\ ~opts.diploid /\ chunkCount = 4
    /\ Len(out.h1) = 3
    /\ Len(out.h1[2].seq) = 2

\* ------------------------------------------------------------ C19
IsPrefix(p, q) == Len(p) <= Len(q) /\ SubSeq(q, 1, Len(p)) = p
SlotWritten(k) == results["chunkResults"][k] # NullSlot
\* The order of the stages the claim gives.
ExpectedStages ==
    <<"convertToReadsAndAlignments">>
    \o (IF params.maxDepth > 0 THEN <<"poorMansDownsample">> ELSE <<>>)
    \o <<"poa_realignAll">>
    \o (IF opts.diploid
        THEN <<"bubbleGraph_constructFromPoa", "bubbleGraph_phaseBubbleGraph", "bubbleGraph_getNewPoa">>
        ELSE <<>>)
    \o (IF params.useRunLengthEncoding THEN <<"estimateRepeatCounts">> ELSE <<>>)
    \o <<"writeSlot", "destroy">>

PastEntry(t) == tpc[t] \in {"save", "set", "construct", "restore", "write"}
NameMissing(k) == ChunkName(k) \notin DOMAIN referenceSequences

\* C20: a chunk whose refSeqName is not a key of the reference map never gets
\* past the entry of its task: no read is converted, no POA built, no slot
\* written, and the process aborts there; the abort for a missing reference
\* happens only at the entry of a task whose chunk's name is missing.
C20_MissingReferenceAbortsAtEntry ==
    /\ \A k \in DOMAIN taskLog :
          NameMissing(k - 1) => taskLog[k] = <<>> /\ ~SlotWritten(k)
    /\ \A t \in Threads : PastEntry(t) => ~NameMissing(tChunkIdx[t])
    /\ abortedAt = "referenceMissing" =>
          /\ mainPc = "exit" /\ exitCode = 1
          /\ \E t \in Threads : tpc[t] = "entry" /\ NameMissing(tChunkIdx[t])

\* The process has aborted on a chunk of a contig the assembly lacks, after
\* the task of another chunk had finished.
C20_Witness ==
    /\ abortedAt = "referenceMissing"
    /\ \E k \in DOMAIN taskLog : TaskFinished(k) /\ ~NameMissing(k - 1)
    /\ \E k \in DOMAIN taskLog : NameMissing(k - 1)

\* ------------------------------------------------------------ C17
HeaderLen(name) ==
    LET i == CHOOSE j \in 1..Len(bamChunker.header) : bamChunker.header[j].name = name
    IN bamChunker.header[i].len

\* C17: every chunk the chunker emits satisfies
\* 0 <= boundaryStart <= start < end <= boundaryEnd <= contigLen.
C17_ChunkWindowsOrdered ==
    bamChunker.built =>
        \A i \in 1..Len(bamChunker.chunks) :
            LET c == bamChunker.chunks[i]
            IN /\ 0 <= c.chunkBoundaryStart
               /\ c.chunkBoundaryStart <= c.chunkStart
               /\ c.chunkStart < c.chunkEnd
               /\ c.chunkEnd <= c.chunkBoundaryEnd
               /\ c.chunkBoundaryEnd <= HeaderLen(c.refSeqName)

\* Under a region the chunker has emitted two chunks, the first with a
\* boundary on both sides, the second ending at the end of the contig.
C17_Witness ==
    /\ bamChunker.built /\ opts.regionStr = "a:1-3"
    /\ Len(bamChunker.chunks) = 2
    /\ bamChunker.chunks[1].chunkBoundaryStart < bamChunker.chunks[1].chunkStart
    /\ bamChunker.chunks[1].chunkEnd < bamChunker.chunks[1].chunkBoundaryEnd
    /\ bamChunker.chunks[2].chunkBoundaryEnd = HeaderLen(<<"a">>)

\* ------------------------------------------------------------ C22
\* C22: in diploid mode, once every chunk task has completed, the shared
\* parameter useReadAlleles has the value it had before the parallel loop
\* (the value read from the parameter file).
C22_UseReadAllelesRestored ==
    (/\ opts.diploid
     /\ mainPc \in {"parallel", "cleanup", "exit"}
     /\ params.loaded /\ bamChunker.built /\ chunkCount > 0
     /\ DOMAIN taskLog = 1..chunkCount
     /\ \A k \in 1..chunkCount : TaskFinished(k))
    => params.useReadAlleles = paramsFile.useReadAlleles

\* ------------------------------------------------------------ C21
RefLen(k) == HashSearch(referenceSequences, bamChunker.chunks[k].refSeqName).len
PassedEntry(k) == chunkLog[k].reference # NoSubstring

\* C21: for every chunk task that passed the entry checks, the reference
\* substring starts at chunkBoundaryStart and has length
\* min(refLen, chunkBoundaryEnd) - chunkBoundaryStart, which is not negative
\* and does not reach past the end of the contig; a task whose
\* chunkBoundaryStart exceeds refLen never gets a substring, and the only
\* way it leaves the entry checks is the abort.
C21_ReferenceSubstringWithinContig ==
    \A k \in DOMAIN chunkLog :
        LET c == bamChunker.chunks[k]
            sub == chunkLog[k].reference
        IN /\ PassedEntry(k) =>
                /\ sub.start = c.chunkBoundaryStart
                /\ sub.len = (IF RefLen(k) < c.chunkBoundaryEnd THEN RefLen(k)
                              ELSE c.chunkBoundaryEnd) - c.chunkBoundaryStart
                /\ sub.len >= 0
                /\ sub.start + sub.len <= RefLen(k)
           /\ c.chunkBoundaryStart > RefLen(k) =>
                /\ ~PassedEntry(k)
                /\ taskLog[k] = <<>>
                /\ \A t \in Threads :
                      (tChunkIdx[t] = k - 1 /\ tpc[t] # "entry") => tpc[t] = "idle"
                /\ exitCode \in {-1, 1}
                /\ exitCode = 1 => abortedAt = "startBeyondContig"

\* A task has finished whose window ends past the contig: the substring was
\* cut at the end of the contig and is not empty.
C21_Witness ==
    /\ chunkCount = 1 /\ TaskFinished(1)
    /\ bamChunker.chunks[1].chunkBoundaryEnd > RefLen(1)
    /\ chunkLog[1].reference.start + chunkLog[1].reference.len = RefLen(1)
    /\ chunkLog[1].reference.len > 0

\* ------------------------------------------------------------ C23
\* The command line with its -p words taken out.
WithoutDepthWords == SelectSeq(argv.optv, LAMBDA w : w.name # "p")
RepeatCountWords == {i \in 1..Len(argv.optv) : argv.optv[i].name = "i"}

\* C23: after parsing a command line that contains -p D but no -i, the
\* repeat-count dump stays disabled (outputRepeatCountBase is unset, no task
\* writes the dump) and every option other than the depth has the value it
\* has after parsing the same command line without -p.
C23_DepthOptionChangesOnlyDepth ==
    (/\ OptionsParsed /\ argc >= 4
     /\ DepthWords # {} /\ RepeatCountWords = {}
     /\ \A i \in 1..Len(argv.optv) : Harmless(argv.optv[i]))
    => /\ opts.outputRepeatCountBase = NULL
       /\ mainPc = "diploidCheck" =>
             opts = [OptionLoop(WithoutDepthWords, 1, DefaultOpts, NULL).o
                        EXCEPT !.maxDepth = opts.maxDepth]
       /\ \A k \in DOMAIN chunkLog : "repeatCount" \notin chunkLog[k].dumps

\* ------------------------------------------------------------ C24
AllReads == 1..bamReads

====
